---- MODULE Spec2Model ----
(***************************************************************************)
(* Model of src/app.py: the Flask upload handler upload_and_convert and    *)
(* the page pipeline process_document, with the upload directory as the    *)
(* only state shared between invocations.                                  *)
(*                                                                         *)
(* File names and paths are sequences of one-character strings, so that    *)
(* lower(), endswith(), basename(), join() and rsplit() are computed as    *)
(* the code computes them.  The external collaborators (werkzeug's         *)
(* file.save, fitz, PIL, the Gemini client, python-docx, os.remove) are    *)
(* modelled by their outcomes: each call either succeeds or raises.        *)
(***************************************************************************)
EXTENDS Naturals, Sequences, FiniteSets, TLC

(* ------------------------------ bounds -------------------------------- *)

\* Largest page count of an uploaded PDF.
MaxPages == 3

\* Number of invocations that may overlap in the concurrent specification.
NumInvocations == 2

Invocations == 1..NumInvocations

\* Largest page count of an uploaded PDF in the concurrent specification.
ConcMaxPages == 1

\* Largest length of an upload, in blocks.
MaxBlocks == 3

(* ----------------------- strings as char sequences -------------------- *)

UpperLetters ==
  <<"A","B","C","D","E","F","G","H","I","J","K","L","M",
    "N","O","P","Q","R","S","T","U","V","W","X","Y","Z">>

LowerLetters ==
  <<"a","b","c","d","e","f","g","h","i","j","k","l","m",
    "n","o","p","q","r","s","t","u","v","w","x","y","z">>

\* Characters outside ASCII are written as their code point, "U+00C9".
\* str.lower() is Unicode-aware; these are the cased non-ASCII characters of
\* the model's alphabet, each with the characters lower() turns it into
\* (U+0130 becomes two characters).
UnicodeLower ==
  { << "U+00C9", << "U+00E9" >> >>,
    << "U+0130", << "i", "U+0307" >> >>,
    << "U+212A", << "k" >> >> }

\* str.lower() on one character: the characters it becomes
LowerChar(c) ==
  IF \E i \in 1..26 : UpperLetters[i] = c
  THEN << LowerLetters[CHOOSE i \in 1..26 : UpperLetters[i] = c] >>
  ELSE IF \E u \in UnicodeLower : u[1] = c
  THEN (CHOOSE u \in UnicodeLower : u[1] = c)[2]
  ELSE << c >>

RECURSIVE Lower(_)
\* str.lower()
Lower(s) == IF s = <<>> THEN <<>> ELSE LowerChar(Head(s)) \o Lower(Tail(s))

\* str.endswith(suffix)
EndsWith(s, suf) ==
  /\ Len(s) >= Len(suf)
  /\ SubSeq(s, Len(s) - Len(suf) + 1, Len(s)) = suf

\* str.endswith(tuple of suffixes)
EndsWithAny(s, sufs) == \E suf \in sufs : EndsWith(s, suf)

\* index of the last occurrence of character c in s, 0 when there is none
LastIndex(s, c) ==
  IF \E i \in 1..Len(s) : s[i] = c
  THEN CHOOSE i \in 1..Len(s) : s[i] = c /\ \A j \in (i+1)..Len(s) : s[j] # c
  ELSE 0

\* os.path.basename
Basename(f) == SubSeq(f, LastIndex(f, "/") + 1, Len(f))

\* os.path.join(dir, name) for a name that holds no separator
JoinPath(dir, name) ==
  IF dir = <<>> THEN name
  ELSE IF dir[Len(dir)] = "/" THEN dir \o name
  ELSE dir \o <<"/">> \o name

\* filename.rsplit('.', 1)[0]
Stem(f) == IF LastIndex(f, ".") = 0 THEN f ELSE SubSeq(f, 1, LastIndex(f, ".") - 1)

(* --------------------------- program constants ------------------------ *)

\* app.config['UPLOAD_FOLDER']
UPLOAD_FOLDER == <<".","/","t","m","p","/","u","p","l","o","a","d","s">>

PdfSuffixes == { <<".","p","d","f">> }

ImageSuffixes == { <<".","j","p","g">>, <<".","j","p","e","g">>, <<".","p","n","g">> }

OcrSuffix == <<"_","O","C","R",".","d","o","c","x">>

MsgNoKey ==
  "Server not configured: Gemini API key is missing. Please set the GEMINI_API_KEY environment variable."

MsgNoFilePart == "No file part"

MsgNoSelectedFile == "No selected file"

MsgSaveFailed == "Failed to save the uploaded file."

MsgClientNone == "Gemini client is not initialized. API key missing."

MsgUnsupported == "Unsupported file type. Please upload a PDF, JPG, or PNG."

MsgGeneric == "An internal conversion error occurred. Check the server logs."

\* Text of an exception raised inside an external library.
MsgInternal == "internal error detail"

(* ------------------------------- inputs ------------------------------- *)

F_pdf == <<"a",".","p","d","f">>

F_PdF == <<"a",".","P","d","F">>

F_dir_pdf == <<"d","/","a",".","p","d","f">>

F_jpg == <<"b",".","j","p","g">>

F_JPEG == <<"b",".","J","P","E","G">>

F_png == <<"b",".","p","n","g">>

F_txt == <<"c",".","t","x","t">>

F_nodot == <<"p","d","f">>

F_accent_PDF == <<"U+00C9",".","P","D","F">>

F_dotted_png == <<"U+0130",".","p","n","g">>

\* File names a client may supply (the empty name is the "no selected file" case).
Filenames ==
  { <<>>, F_pdf, F_PdF, F_dir_pdf, F_jpg, F_JPEG, F_png, F_txt, F_nodot,
    F_accent_PDF, F_dotted_png }

\* Texts the OCR backend may return.
Texts == { "Hello", "World", "", " " }

\* Inputs of the concurrent specification: colliding and distinct names.
ConcFilenames == { <<>>, F_pdf, F_dir_pdf, F_png, F_txt }

ConcTexts == { "Hello" }

\* Lengths of an upload, in blocks: none, less than a chunk, more than one.
Sizes == 0..MaxBlocks

\* Lengths in the concurrent specification: less than a chunk, and more.
ConcSizes == { 1, MaxBlocks }

\* os.environ.get("GEMINI_API_KEY"): None, or a string
NoKey == [set |-> FALSE, value |-> ""]

ApiKeys == { NoKey, [set |-> TRUE, value |-> ""], [set |-> TRUE, value |-> "key"] }

\* Variant of Truthy: tests "is not None" only, so an empty key counts as set.
TruthyIsNotNone(k) == k.set

\* Python truthiness of API_KEY
Truthy(k) == k.set /\ k.value # ""

\* Exception classes, told apart the way the handler does: ValueError or not.
ErrTypes == { "ValueError", "Exception" }

\* Variant of IsPdfName: tests "'pdf' in path.lower()" instead of endswith.
IsPdfNameContains(path) ==
  \E i \in 1..(Len(path) - 2) : SubSeq(Lower(path), i, i + 2) = <<"p","d","f">>

IsPdfName(path) == EndsWithAny(Lower(path), PdfSuffixes)

IsImageName(path) == EndsWithAny(Lower(path), ImageSuffixes)

\* The bytes a client uploads under a name: readable by the decoder the
\* name's extension selects (ok) with a page count, or not readable.  fitz
\* opens a PDF whose page tree is empty with len(pdf_document) = 0.
Unreadable == [ok |-> FALSE, pages |-> 0]

UploadContents(name, maxPages) ==
  IF IsPdfName(name)
  THEN { Unreadable } \cup { [ok |-> TRUE, pages |-> n] : n \in 0..maxPages }
  ELSE IF IsImageName(name)
  THEN { Unreadable, [ok |-> TRUE, pages |-> 1] }
  ELSE { Unreadable }

(* ------------------------------- state -------------------------------- *)

VARIABLES
  API_KEY,            \* process-wide credential, read at start-up
  fs,                 \* upload directory: path -> stored file
  pc,                 \* position of each invocation
  req,                \* the request of each invocation
  input_file_path,    \* process_document's input_file_path
  client,             \* process_document's client
  pdf_document,       \* "None", "open"
  pages_to_process,   \* sequence of page sources
  page_number,        \* loop variable of the OCR loop (0 before the loop)
  document,           \* the docx document being built: sequence of elements
  calls,              \* backend stub's call log: page numbers requested
  returned,           \* texts the backend returned, in order
  tryOutcome,         \* how the try block of process_document ended
  outcome,            \* how process_document ended (after finally)
  response,           \* the HTTP response of the upload handler
  writes,             \* number of files the invocation stored
  removed,            \* number of files the invocation deleted
  warnings            \* number of warnings the cleanup printed

vars == << API_KEY, fs, pc, req, input_file_path, client, pdf_document,
           pages_to_process, page_number, document, calls, returned, tryOutcome, outcome,
           response, writes, removed, warnings >>

Paths == { JoinPath(UPLOAD_FOLDER, Basename(f)) : f \in Filenames \ {<<>>} }

\* Lengths are counted in blocks; one write of file.save's copy loop
\* (shutil.copyfileobj, a buffer of 16384 bytes) carries this many.
ChunkBlocks == 2

Min(a, b) == IF a < b THEN a ELSE b

Max(a, b) == IF a > b THEN a ELSE b

\* The bytes of invocation q's upload, block by block.  Every block carries
\* the mark of its invocation: two uploads differ in each of their blocks.
UploadData(q, size) == [i \in 1..size |-> q]

\* A path of the upload directory: whether a file is linked there, its
\* blocks, the invocations that hold it open for writing and the position
\* (in blocks) each of them writes at next.
Absent ==
  [exists |-> FALSE, data |-> <<>>, writers |-> {},
   offset |-> [q \in Invocations |-> 0]]

\* open(dst, 'wb') by p: the file at the path is created, or truncated
Truncated(file, p) ==
  [exists |-> TRUE, data |-> <<>>, writers |-> file.writers \cup {p},
   offset |-> [file.offset EXCEPT ![p] = 0]]

\* write() of n blocks of p's upload at position off: the blocks there are
\* replaced, and a gap between the end of the file and off reads as zeros.
WriteAt(data, off, n, p) ==
  [i \in 1..Max(Len(data), off + n) |->
     IF i > off /\ i <= off + n THEN p
     ELSE IF i <= Len(data) THEN data[i]
     ELSE 0]

\* p's handle on the file is closed (on return from file.save, or on its
\* way out with an exception)
Closed(file, p) ==
  [file EXCEPT !.writers = @ \ {p}, !.offset[p] = 0]

NoRequest ==
  [entry |-> "none", hasFile |-> FALSE, filename |-> <<>>, size |-> 0,
   ok |-> FALSE, pages |-> 0]

NoOutcome == [kind |-> "none", type |-> "", msg |-> "", origin |-> ""]

Returned == [kind |-> "return", type |-> "", msg |-> "", origin |-> ""]

Raised(type, msg, origin) == [kind |-> "raise", type |-> type, msg |-> msg, origin |-> origin]

NoResponse == [status |-> 0, body |-> "", attachment |-> FALSE, download_name |-> <<>>]

TextResponse(status, body) ==
  [status |-> status, body |-> body, attachment |-> FALSE, download_name |-> <<>>]

Init ==
  /\ API_KEY \in ApiKeys
  /\ fs = [path \in Paths |-> Absent]
  /\ pc = [p \in Invocations |-> "Idle"]
  /\ req = [p \in Invocations |-> NoRequest]
  /\ input_file_path = [p \in Invocations |-> <<>>]
  /\ client = [p \in Invocations |-> "None"]
  /\ pdf_document = [p \in Invocations |-> "None"]
  /\ pages_to_process = [p \in Invocations |-> <<>>]
  /\ page_number = [p \in Invocations |-> 0]
  /\ document = [p \in Invocations |-> <<>>]
  /\ calls = [p \in Invocations |-> <<>>]
  /\ returned = [p \in Invocations |-> <<>>]
  /\ tryOutcome = [p \in Invocations |-> NoOutcome]
  /\ outcome = [p \in Invocations |-> NoOutcome]
  /\ response = [p \in Invocations |-> NoResponse]
  /\ writes = [p \in Invocations |-> 0]
  /\ removed = [p \in Invocations |-> 0]
  /\ warnings = [p \in Invocations |-> 0]

(* ------------------------- upload_and_convert ------------------------- *)

\* The requests a client may send: without a 'file' part, or with one, of
\* a length among S.
Requests(F, maxPages, S) ==
  { [entry |-> "upload", hasFile |-> FALSE, filename |-> <<>>, size |-> 0,
     ok |-> FALSE, pages |-> 0] }
  \cup
  { [entry |-> "upload", hasFile |-> TRUE, filename |-> f, size |-> z,
     ok |-> b, pages |-> n] :
      f \in F, z \in S, b \in BOOLEAN, n \in 0..maxPages }

\* An upload of no bytes is no document any decoder reads.
ValidRequests(F, maxPages, S) ==
  { r \in Requests(F, maxPages, S) :
      r.hasFile =>
        /\ [ok |-> r.ok, pages |-> r.pages] \in UploadContents(r.filename, maxPages)
        /\ r.size = 0 => ~r.ok }

\* if not API_KEY: return "...", 500
RejectNoKey(p, F, maxPages, S) ==
  /\ pc[p] = "Idle"
  /\ ~Truthy(API_KEY)
  /\ \E r \in ValidRequests(F, maxPages, S) : req' = [req EXCEPT ![p] = r]
  /\ response' = [response EXCEPT ![p] = TextResponse(500, MsgNoKey)]
  /\ pc' = [pc EXCEPT ![p] = "Finished"]
  /\ UNCHANGED << API_KEY, fs, input_file_path, client, pdf_document,
                  pages_to_process, page_number, document, calls, returned,
                  tryOutcome, outcome, writes, removed, warnings >>

\* if 'file' not in request.files: return 'No file part', 400
RejectNoFilePart(p, F, maxPages, S) ==
  /\ pc[p] = "Idle"
  /\ Truthy(API_KEY)
  /\ \E r \in ValidRequests(F, maxPages, S) :
       /\ ~r.hasFile
       /\ req' = [req EXCEPT ![p] = r]
  /\ response' = [response EXCEPT ![p] = TextResponse(400, MsgNoFilePart)]
  /\ pc' = [pc EXCEPT ![p] = "Finished"]
  /\ UNCHANGED << API_KEY, fs, input_file_path, client, pdf_document,
                  pages_to_process, page_number, document, calls, returned,
                  tryOutcome, outcome, writes, removed, warnings >>

\* if file.filename == '': return 'No selected file', 400
RejectEmptyFilename(p, F, maxPages, S) ==
  /\ pc[p] = "Idle"
  /\ Truthy(API_KEY)
  /\ \E r \in ValidRequests(F, maxPages, S) :
       /\ r.hasFile
       /\ r.filename = <<>>
       /\ req' = [req EXCEPT ![p] = r]
  /\ response' = [response EXCEPT ![p] = TextResponse(400, MsgNoSelectedFile)]
  /\ pc' = [pc EXCEPT ![p] = "Finished"]
  /\ UNCHANGED << API_KEY, fs, input_file_path, client, pdf_document,
                  pages_to_process, page_number, document, calls, returned,
                  tryOutcome, outcome, writes, removed, warnings >>

\* file.save(filepath) cannot open its destination: nothing is written;
\* return "Failed to save the uploaded file.", 500
SaveFileFails(p, F, maxPages, S) ==
  /\ pc[p] = "Idle"
  /\ Truthy(API_KEY)
  /\ \E r \in ValidRequests(F, maxPages, S) :
       /\ r.hasFile
       /\ r.filename # <<>>
       /\ req' = [req EXCEPT ![p] = r]
  /\ response' = [response EXCEPT ![p] = TextResponse(500, MsgSaveFailed)]
  /\ pc' = [pc EXCEPT ![p] = "Finished"]
  /\ UNCHANGED << API_KEY, fs, input_file_path, client, pdf_document,
                  pages_to_process, page_number, document, calls, returned,
                  tryOutcome, outcome, writes, removed, warnings >>

\* "if file:" holds for a file part with a non-empty name; filepath is
\* computed (kept in input_file_path, which it becomes) and file.save opens
\* the destination with open(dst, 'wb'): the file is created, or truncated.
SaveOpen(p, F, maxPages, S) ==
  /\ pc[p] = "Idle"
  /\ Truthy(API_KEY)
  /\ \E r \in ValidRequests(F, maxPages, S) :
       /\ r.hasFile
       /\ r.filename # <<>>
       /\ LET filepath == JoinPath(UPLOAD_FOLDER, Basename(r.filename)) IN
            /\ req' = [req EXCEPT ![p] = r]
            /\ fs' = [fs EXCEPT ![filepath] = Truncated(@, p)]
            /\ input_file_path' = [input_file_path EXCEPT ![p] = filepath]
  /\ pc' = [pc EXCEPT ![p] = "Saving"]
  /\ UNCHANGED << API_KEY, client, pdf_document, pages_to_process, page_number,
                  document, calls, returned, tryOutcome, outcome, response,
                  writes, removed, warnings >>

\* file.save(filepath), one round of the copy loop: the next chunk of the
\* upload is written at p's position in the file p holds open.  (Writes to
\* a file unlinked meanwhile show nowhere in the upload directory.)
SaveChunk(p) ==
  /\ pc[p] = "Saving"
  /\ LET file == fs[input_file_path[p]]
         off == file.offset[p]
         n == Min(ChunkBlocks, req[p].size - off)
     IN /\ p \in file.writers
        /\ off < req[p].size
        /\ fs' = [fs EXCEPT ![input_file_path[p]] =
                    [file EXCEPT !.data = WriteAt(file.data, off, n, p),
                                 !.offset[p] = off + n]]
  /\ UNCHANGED << API_KEY, pc, req, input_file_path, client, pdf_document,
                  pages_to_process, page_number, document, calls, returned,
                  tryOutcome, outcome, response, writes, removed, warnings >>

\* file.save(filepath) has copied the whole upload, closes the file and
\* returns
SaveFile(p) ==
  /\ pc[p] = "Saving"
  /\ LET file == fs[input_file_path[p]] IN
       /\ p \in file.writers => file.offset[p] = req[p].size
       /\ fs' = [fs EXCEPT ![input_file_path[p]] = Closed(file, p)]
  /\ writes' = [writes EXCEPT ![p] = @ + 1]
  /\ pc' = [pc EXCEPT ![p] = "Saved"]
  /\ UNCHANGED << API_KEY, req, input_file_path, client, pdf_document,
                  pages_to_process, page_number, document, calls, returned,
                  tryOutcome, outcome, response, removed, warnings >>

\* file.save(filepath) raises during the copy: the destination keeps the
\* chunks written so far; return "Failed to save the uploaded file.", 500
SaveCopyFails(p) ==
  /\ pc[p] = "Saving"
  /\ fs' = [fs EXCEPT ![input_file_path[p]] = Closed(@, p)]
  /\ response' = [response EXCEPT ![p] = TextResponse(500, MsgSaveFailed)]
  /\ pc' = [pc EXCEPT ![p] = "Finished"]
  /\ UNCHANGED << API_KEY, req, input_file_path, client, pdf_document,
                  pages_to_process, page_number, document, calls, returned,
                  tryOutcome, outcome, writes, removed, warnings >>

\* gemini_client = genai.Client(api_key=API_KEY);
\* process_document(filepath, OCR_PROMPT, gemini_client) is entered
MakeClient(p) ==
  /\ pc[p] = "Saved"
  /\ client' = [client EXCEPT ![p] = "Client"]
  /\ pc' = [pc EXCEPT ![p] = "Entry"]
  /\ UNCHANGED << API_KEY, fs, req, input_file_path, pdf_document,
                  pages_to_process, page_number, document, calls, returned,
                  tryOutcome, outcome, response, writes, removed, warnings >>

\* process_document(input_file_path, prompt, client) called by a caller other
\* than the upload handler (a test with a stub client, or with client None),
\* which has stored the input document at input_file_path.
DirectCall(p, F, maxPages, S) ==
  /\ pc[p] = "Idle"
  /\ \E r \in ValidRequests(F, maxPages, S), c \in {"None", "Client"} :
       /\ r.hasFile
       /\ r.filename # <<>>
       /\ LET filepath == JoinPath(UPLOAD_FOLDER, Basename(r.filename)) IN
            /\ req' = [req EXCEPT ![p] = [r EXCEPT !.entry = "direct"]]
            /\ fs' = [fs EXCEPT ![filepath] =
                        [Absent EXCEPT !.exists = TRUE,
                                       !.data = UploadData(p, r.size)]]
            /\ input_file_path' = [input_file_path EXCEPT ![p] = filepath]
       /\ client' = [client EXCEPT ![p] = c]
  /\ writes' = [writes EXCEPT ![p] = @ + 1]
  /\ pc' = [pc EXCEPT ![p] = "Entry"]
  /\ UNCHANGED << API_KEY, pdf_document, pages_to_process, page_number,
                  document, calls, returned, tryOutcome, outcome, response,
                  removed, warnings >>

(* --------------------------- process_document ------------------------- *)

\* document.add_paragraph(text)
Para(text) == [tag |-> "p", text |-> text]

\* document.add_section(WD_SECTION.NEW_PAGE)
SectionBreak == [tag |-> "sectPr", text |-> "nextPage"]

\* f"\n--- Page {page_number} ---"
PageMarker(n) == "\n--- Page " \o ToString(n) \o " ---"

\* Variant of NeedsBreak: a break after every page of a multi-page input.
NeedsBreakAfterEveryPage(n, total) == total > 1 /\ n <= total

\* if len(pages_to_process) > 1 and page_number < len(pages_to_process)
NeedsBreak(n, total) == total > 1 /\ n < total

\* pages_to_process of a PDF with n pages: one in-memory PNG stream per page
PdfPages(n) == [i \in 1..n |-> [src |-> "stream", page |-> i]]

\* pages_to_process of an image: the file path itself
ImagePages == << [src |-> "path", page |-> 1] >>

\* document = Document() raises (before the try block: no cleanup runs)
DocumentInitFails(p) ==
  /\ pc[p] = "Entry"
  /\ \E type \in ErrTypes :
       outcome' = [outcome EXCEPT ![p] = Raised(type, MsgInternal, "DocumentInit")]
  /\ pc' = [pc EXCEPT ![p] = "Exit"]
  /\ UNCHANGED << API_KEY, fs, req, input_file_path, client, pdf_document,
                  pages_to_process, page_number, document, calls, returned,
                  tryOutcome, response, writes, removed, warnings >>

\* if client is None: raise Exception(...)   (before the try block)
ClientNone(p) ==
  /\ pc[p] = "Entry"
  /\ client[p] = "None"
  /\ outcome' = [outcome EXCEPT ![p] = Raised("Exception", MsgClientNone, "ClientCheck")]
  /\ pc' = [pc EXCEPT ![p] = "Exit"]
  /\ UNCHANGED << API_KEY, fs, req, input_file_path, client, pdf_document,
                  pages_to_process, page_number, document, calls, returned,
                  tryOutcome, response, writes, removed, warnings >>

\* Where control goes after the pages are prepared: into the OCR loop, or,
\* with no page to process, past it to document.save.
AfterSplit(total) == IF total = 0 THEN "Assembling" ELSE "Extracting"

\* What a decoder (fitz.open, Image.open) finds in the file now at the path:
\* the document of the upload whose bytes, all of them and nothing else, the
\* file holds; anything else is nothing it can read.
Reads(path) ==
  LET file == fs[path]
      Whole(q) == /\ file.exists
                  /\ req[q].size >= 1
                  /\ file.data = UploadData(q, req[q].size)
  IN IF \E q \in Invocations : Whole(q)
     THEN LET q == CHOOSE q \in Invocations : Whole(q)
          IN [ok |-> req[q].ok, pages |-> req[q].pages]
     ELSE Unreadable

\* .pdf: fitz.open reads the file now at input_file_path and every page of it
\* (there may be none) is rendered
SplitPdf(p) ==
  /\ pc[p] = "Entry"
  /\ client[p] # "None"
  /\ IsPdfName(input_file_path[p])
  /\ Reads(input_file_path[p]).ok
  /\ pdf_document' = [pdf_document EXCEPT ![p] = "open"]
  /\ pages_to_process' =
       [pages_to_process EXCEPT ![p] = PdfPages(Reads(input_file_path[p]).pages)]
  /\ pc' = [pc EXCEPT ![p] = AfterSplit(Reads(input_file_path[p]).pages)]
  /\ UNCHANGED << API_KEY, fs, req, input_file_path, client, page_number,
                  document, calls, returned, tryOutcome, outcome, response,
                  writes, removed, warnings >>

\* .pdf: fitz.open raises (the file is missing or is not a readable PDF)
SplitPdfFails(p) ==
  /\ pc[p] = "Entry"
  /\ client[p] # "None"
  /\ IsPdfName(input_file_path[p])
  /\ ~Reads(input_file_path[p]).ok
  /\ \E type \in ErrTypes :
       tryOutcome' = [tryOutcome EXCEPT ![p] = Raised(type, MsgInternal, "Splitting")]
  /\ pc' = [pc EXCEPT ![p] = "Finally"]
  /\ UNCHANGED << API_KEY, fs, req, input_file_path, client, pdf_document,
                  pages_to_process, page_number, document, calls, returned,
                  outcome, response, writes, removed, warnings >>

\* .pdf: fitz.open succeeds, load_page / get_pixmap / tobytes raises on page
\* k: the pages before it are already appended to pages_to_process, and the
\* try block is left with the PDF handle still open
SplitPdfRenderFails(p) ==
  /\ pc[p] = "Entry"
  /\ client[p] # "None"
  /\ IsPdfName(input_file_path[p])
  /\ Reads(input_file_path[p]).ok
  /\ \E k \in 1..Reads(input_file_path[p]).pages :
       pages_to_process' = [pages_to_process EXCEPT ![p] = PdfPages(k - 1)]
  /\ pdf_document' = [pdf_document EXCEPT ![p] = "open"]
  /\ \E type \in ErrTypes :
       tryOutcome' = [tryOutcome EXCEPT ![p] = Raised(type, MsgInternal, "Splitting")]
  /\ pc' = [pc EXCEPT ![p] = "Finally"]
  /\ UNCHANGED << API_KEY, fs, req, input_file_path, client, page_number,
                  document, calls, returned, outcome, response, writes,
                  removed, warnings >>

\* .jpg, .jpeg, .png: pages_to_process = [input_file_path]
SplitImage(p) ==
  /\ pc[p] = "Entry"
  /\ client[p] # "None"
  /\ ~IsPdfName(input_file_path[p])
  /\ IsImageName(input_file_path[p])
  /\ pages_to_process' = [pages_to_process EXCEPT ![p] = ImagePages]
  /\ pc' = [pc EXCEPT ![p] = "Extracting"]
  /\ UNCHANGED << API_KEY, fs, req, input_file_path, client, pdf_document,
                  page_number, document, calls, returned, tryOutcome, outcome,
                  response, writes, removed, warnings >>

\* else: raise ValueError("Unsupported file type. ...")
SplitUnsupported(p) ==
  /\ pc[p] = "Entry"
  /\ client[p] # "None"
  /\ ~IsPdfName(input_file_path[p])
  /\ ~IsImageName(input_file_path[p])
  /\ tryOutcome' =
       [tryOutcome EXCEPT ![p] = Raised("ValueError", MsgUnsupported, "UnsupportedFormat")]
  /\ pc' = [pc EXCEPT ![p] = "Finally"]
  /\ UNCHANGED << API_KEY, fs, req, input_file_path, client, pdf_document,
                  pages_to_process, page_number, document, calls, returned,
                  outcome, response, writes, removed, warnings >>

\* Image.open(page_source) can read its source: a stream always, a path when
\* the file is there and is a readable image.
CanOpenImage(source, path) == source.src = "stream" \/ Reads(path).ok

\* next iteration: Image.open succeeds and generate_content is issued
OcrSend(p) ==
  /\ pc[p] = "Extracting"
  /\ page_number[p] < Len(pages_to_process[p])
  /\ CanOpenImage(pages_to_process[p][page_number[p] + 1], input_file_path[p])
  /\ page_number' = [page_number EXCEPT ![p] = @ + 1]
  /\ calls' = [calls EXCEPT ![p] = Append(@, page_number[p] + 1)]
  /\ pc' = [pc EXCEPT ![p] = "Awaiting"]
  /\ UNCHANGED << API_KEY, fs, req, input_file_path, client, pdf_document,
                  pages_to_process, document, returned, tryOutcome, outcome,
                  response, writes, removed, warnings >>

\* next iteration: Image.open raises, no request is issued
ImageOpenFails(p) ==
  /\ pc[p] = "Extracting"
  /\ page_number[p] < Len(pages_to_process[p])
  /\ ~CanOpenImage(pages_to_process[p][page_number[p] + 1], input_file_path[p])
  /\ page_number' = [page_number EXCEPT ![p] = @ + 1]
  /\ \E type \in ErrTypes :
       tryOutcome' = [tryOutcome EXCEPT ![p] = Raised(type, MsgInternal, "ImageOpen")]
  /\ pc' = [pc EXCEPT ![p] = "Finally"]
  /\ UNCHANGED << API_KEY, fs, req, input_file_path, client, pdf_document,
                  pages_to_process, document, calls, returned, outcome,
                  response, writes, removed, warnings >>

\* What one iteration appends to the document for the text the backend returned.
PageElements(n, total, text) ==
  << Para(PageMarker(n)), Para(text) >>
  \o (IF NeedsBreak(n, total) THEN << SectionBreak >> ELSE << >>)

\* Variant of AfterPage: the loop stops one page early.
AfterPageStopsEarly(n, total) == IF n + 1 < total THEN "Extracting" ELSE "Assembling"

\* Where the loop goes after page n of total.
AfterPage(n, total) == IF n < total THEN "Extracting" ELSE "Assembling"

\* generate_content returns; the page is added to the document
OcrReturn(p, T) ==
  /\ pc[p] = "Awaiting"
  /\ \E text \in T :
       /\ returned' = [returned EXCEPT ![p] = Append(@, text)]
       /\ document' =
            [document EXCEPT ![p] =
               @ \o PageElements(page_number[p], Len(pages_to_process[p]), text)]
  /\ pc' = [pc EXCEPT ![p] = AfterPage(page_number[p], Len(pages_to_process[p]))]
  /\ UNCHANGED << API_KEY, fs, req, input_file_path, client, pdf_document,
                  pages_to_process, page_number, calls, tryOutcome, outcome,
                  response, writes, removed, warnings >>

\* Variant of AfterBackendError: the error is swallowed and the loop goes on.
AfterBackendErrorContinue == "Extracting"

\* Where control goes when generate_content raises: out of the loop.
AfterBackendError == "Finally"

\* generate_content raises: the exception leaves the loop and the try block
OcrRaises(p) ==
  /\ pc[p] = "Awaiting"
  /\ \E type \in ErrTypes :
       tryOutcome' = [tryOutcome EXCEPT ![p] = Raised(type, MsgInternal, "Backend")]
  /\ pc' = [pc EXCEPT ![p] = AfterBackendError]
  /\ UNCHANGED << API_KEY, fs, req, input_file_path, client, pdf_document,
                  pages_to_process, page_number, document, calls, returned,
                  outcome, response, writes, removed, warnings >>

\* document.save(doc_io); doc_io.seek(0); return doc_io
Assemble(p) ==
  /\ pc[p] = "Assembling"
  /\ tryOutcome' = [tryOutcome EXCEPT ![p] = Returned]
  /\ pc' = [pc EXCEPT ![p] = "Finally"]
  /\ UNCHANGED << API_KEY, fs, req, input_file_path, client, pdf_document,
                  pages_to_process, page_number, document, calls, returned,
                  outcome, response, writes, removed, warnings >>

\* document.save(doc_io) raises
AssembleFails(p) ==
  /\ pc[p] = "Assembling"
  /\ \E type \in ErrTypes :
       tryOutcome' = [tryOutcome EXCEPT ![p] = Raised(type, MsgInternal, "Serialize")]
  /\ pc' = [pc EXCEPT ![p] = "Finally"]
  /\ UNCHANGED << API_KEY, fs, req, input_file_path, client, pdf_document,
                  pages_to_process, page_number, document, calls, returned,
                  outcome, response, writes, removed, warnings >>

(* ----------------------- finally: the cleanup step -------------------- *)

\* if pdf_document is not None: pdf_document.close()   (close succeeds)
FinallyClose(p) ==
  /\ pc[p] = "Finally"
  /\ pdf_document' =
       [pdf_document EXCEPT ![p] = IF @ = "open" THEN "closed" ELSE @]
  /\ pc' = [pc EXCEPT ![p] = "FinallyExists"]
  /\ UNCHANGED << API_KEY, fs, req, input_file_path, client, pages_to_process,
                  page_number, document, calls, returned, tryOutcome, outcome,
                  response, writes, removed, warnings >>

\* pdf_document.close() raises: nothing in the finally block catches it, so it
\* replaces the try block's result and the rest of the cleanup is skipped
FinallyCloseRaises(p) ==
  /\ pc[p] = "Finally"
  /\ pdf_document[p] = "open"
  /\ \E type \in ErrTypes :
       outcome' = [outcome EXCEPT ![p] = Raised(type, MsgInternal, "Close")]
  /\ pc' = [pc EXCEPT ![p] = "Exit"]
  /\ UNCHANGED << API_KEY, fs, req, input_file_path, client, pdf_document,
                  pages_to_process, page_number, document, calls, returned,
                  tryOutcome, response, writes, removed, warnings >>

\* os.path.exists(input_file_path)
Exists(path) == fs[path].exists

\* if os.path.exists(input_file_path): ... else the function is left
FinallyExists(p) ==
  /\ pc[p] = "FinallyExists"
  /\ IF Exists(input_file_path[p])
     THEN /\ pc' = [pc EXCEPT ![p] = "FinallyRemove"]
          /\ UNCHANGED outcome
     ELSE /\ pc' = [pc EXCEPT ![p] = "Exit"]
          /\ outcome' = [outcome EXCEPT ![p] = tryOutcome[p]]
  /\ UNCHANGED << API_KEY, fs, req, input_file_path, client, pdf_document,
                  pages_to_process, page_number, document, calls, returned,
                  tryOutcome, response, writes, removed, warnings >>

\* os.remove(input_file_path) succeeds
FinallyRemove(p) ==
  /\ pc[p] = "FinallyRemove"
  /\ Exists(input_file_path[p])
  /\ fs' = [fs EXCEPT ![input_file_path[p]] = Absent]
  /\ removed' = [removed EXCEPT ![p] = @ + 1]
  /\ outcome' = [outcome EXCEPT ![p] = tryOutcome[p]]
  /\ pc' = [pc EXCEPT ![p] = "Exit"]
  /\ UNCHANGED << API_KEY, req, input_file_path, client, pdf_document,
                  pages_to_process, page_number, document, calls, returned,
                  tryOutcome, response, writes, warnings >>

\* os.remove(input_file_path) raises (the file is gone by now, or may not be
\* deleted): except Exception prints a warning and the function is left
FinallyRemoveFails(p) ==
  /\ pc[p] = "FinallyRemove"
  /\ warnings' = [warnings EXCEPT ![p] = @ + 1]
  /\ outcome' = [outcome EXCEPT ![p] = tryOutcome[p]]
  /\ pc' = [pc EXCEPT ![p] = "Exit"]
  /\ UNCHANGED << API_KEY, fs, req, input_file_path, client, pdf_document,
                  pages_to_process, page_number, document, calls, returned,
                  tryOutcome, response, writes, removed >>

(* ------------------- upload_and_convert: the response ----------------- *)

\* output_filename = filename.rsplit('.', 1)[0] + '_OCR.docx'
OutputFilename(filename) == Stem(filename) \o OcrSuffix

\* send_file(...) / except ValueError / except Exception
HandlerResponse(out, filename) ==
  IF out.kind = "return"
  THEN [status |-> 200, body |-> "", attachment |-> TRUE,
        download_name |-> OutputFilename(filename)]
  ELSE IF out.type = "ValueError"
  THEN TextResponse(400, out.msg)
  ELSE TextResponse(500, MsgGeneric)

\* the upload handler answers the client
Respond(p) ==
  /\ pc[p] = "Exit"
  /\ req[p].entry = "upload"
  /\ response' =
       [response EXCEPT ![p] = HandlerResponse(outcome[p], Basename(req[p].filename))]
  /\ pc' = [pc EXCEPT ![p] = "Finished"]
  /\ UNCHANGED << API_KEY, fs, req, input_file_path, client, pdf_document,
                  pages_to_process, page_number, document, calls, returned,
                  tryOutcome, outcome, writes, removed, warnings >>

\* genai.Client(api_key=API_KEY) raises inside the handler's try block:
\* process_document is never entered and the stored upload is left behind
MakeClientFails(p) ==
  /\ pc[p] = "Saved"
  /\ \E type \in ErrTypes :
       response' =
         [response EXCEPT ![p] =
            HandlerResponse(Raised(type, MsgInternal, "ClientInit"),
                            Basename(req[p].filename))]
  /\ pc' = [pc EXCEPT ![p] = "Finished"]
  /\ UNCHANGED << API_KEY, fs, req, input_file_path, client, pdf_document,
                  pages_to_process, page_number, document, calls, returned,
                  tryOutcome, outcome, writes, removed, warnings >>

\* process_document hands its result (or exception) to a direct caller
ReturnToCaller(p) ==
  /\ pc[p] = "Exit"
  /\ req[p].entry = "direct"
  /\ pc' = [pc EXCEPT ![p] = "Finished"]
  /\ UNCHANGED << API_KEY, fs, req, input_file_path, client, pdf_document,
                  pages_to_process, page_number, document, calls, returned,
                  tryOutcome, outcome, response, writes, removed, warnings >>

(* ---------------------------- specifications -------------------------- *)

\* One step of an upload invocation p, with file names from F, PDFs of at
\* most maxPages pages, upload lengths from S and OCR texts from T.
UploadStep(p, F, maxPages, S, T) ==
  \/ RejectNoKey(p, F, maxPages, S)
  \/ RejectNoFilePart(p, F, maxPages, S)
  \/ RejectEmptyFilename(p, F, maxPages, S)
  \/ SaveFileFails(p, F, maxPages, S)
  \/ SaveOpen(p, F, maxPages, S)
  \/ SaveChunk(p)
  \/ SaveFile(p)
  \/ SaveCopyFails(p)
  \/ MakeClient(p)
  \/ MakeClientFails(p)
  \/ DocumentInitFails(p)
  \/ SplitPdf(p)
  \/ SplitPdfFails(p)
  \/ SplitPdfRenderFails(p)
  \/ SplitImage(p)
  \/ SplitUnsupported(p)
  \/ OcrSend(p)
  \/ ImageOpenFails(p)
  \/ OcrReturn(p, T)
  \/ OcrRaises(p)
  \/ Assemble(p)
  \/ AssembleFails(p)
  \/ FinallyClose(p)
  \/ FinallyCloseRaises(p)
  \/ FinallyExists(p)
  \/ FinallyRemove(p)
  \/ FinallyRemoveFails(p)
  \/ Respond(p)

\* One step of a direct call of process_document.
DirectStep(p, F, maxPages, S) ==
  \/ DirectCall(p, F, maxPages, S)
  \/ ClientNone(p)
  \/ ReturnToCaller(p)

\* A single invocation at a time: an upload, or a direct call.
Next ==
  \/ UploadStep(1, Filenames, MaxPages, Sizes, Texts)
  \/ DirectStep(1, Filenames, MaxPages, Sizes)

Spec == Init /\ [][Next]_vars

\* Overlapping uploads sharing the upload directory.
NextConc == \E p \in Invocations : UploadStep(p, ConcFilenames, ConcMaxPages, ConcSizes, ConcTexts)

SpecConc == Init /\ [][NextConc]_vars

(* ------------------------------- claims ------------------------------- *)

AfterTry == { "Finally", "FinallyExists", "FinallyRemove", "Exit", "Finished" }

\* The page count of the document the invocation itself supplied.
OwnPages(p) == req[p].pages

\* The text of the k-th section of a document laid out as marker, text, break.
SectionText(d, k) == d[3 * (k - 1) + 2].text

\* C1: a document returned by process_document for an input of N >= 1 pages
\* holds, for k = 1..N in this order, the marker "--- Page k ---" followed by
\* the text returned for page k, with a page break after every page but the
\* last: N sections and N-1 breaks (none when N = 1).
C1_SectionsAndBreaks ==
  \A p \in Invocations :
    (outcome[p].kind = "return" /\ OwnPages(p) >= 1) =>
      LET N == OwnPages(p)
          d == document[p]
      IN /\ Len(returned[p]) = N
         /\ Len(d) = 3 * N - 1
         /\ \A k \in 1..N :
              /\ d[3 * (k - 1) + 1] = Para(PageMarker(k))
              /\ d[3 * (k - 1) + 2] = Para(returned[p][k])
              /\ k < N => d[3 * k] = SectionBreak
         /\ Cardinality({ i \in 1..Len(d) : d[i] = SectionBreak }) = N - 1
         /\ Cardinality({ i \in 1..Len(d) :
                            \E k \in 1..N : d[i] = Para(PageMarker(k)) }) = N

C1_Witness ==
  /\ pc[1] = "Finished"
  /\ outcome[1].kind = "return"
  /\ OwnPages(1) >= 2
  /\ response[1].status = 200

\* C2: an invocation that stored its upload has, once it is over, removed the
\* stored file, exactly once, whatever way it ended.
C2_UploadRemovedOnce ==
  \A p \in Invocations :
    (pc[p] = "Finished" /\ writes[p] >= 1) =>
      /\ ~Exists(input_file_path[p])
      /\ removed[p] = 1

Sentinel == "OCR failed to return text for this page"

BlankTexts == { "", " " }

\* C3: the section of a page for which the backend returned an empty or
\* whitespace-only text holds the sentinel placeholder.
C3_SentinelForBlankPage ==
  \A p \in Invocations :
    \A k \in 1..Len(returned[p]) :
      returned[p][k] \in BlankTexts => SectionText(document[p], k) = Sentinel

\* The declared kind of a file name: its extension, lower-cased.
DeclaredKind(name) ==
  IF LastIndex(name, ".") = 0 THEN <<>>
  ELSE Lower(SubSeq(name, LastIndex(name, ".") + 1, Len(name)))

SupportedKinds == { <<"p","d","f">>, <<"j","p","g">>, <<"j","p","e","g">>, <<"p","n","g">> }

\* The invocation was given a file whose declared kind is not supported.
UnsupportedInput(p) ==
  /\ writes[p] >= 1
  /\ DeclaredKind(Basename(req[p].filename)) \notin SupportedKinds

\* process_document got as far as its try block (lines 66-119) and left it.
EnteredTry(p) == tryOutcome[p].kind # "none"

\* C4: for an input whose declared kind is not pdf, jpg, jpeg or png no OCR
\* call is ever made and no document is built or returned; the try block of
\* process_document, once entered, is left with ValueError("Unsupported file
\* type...") before any page is prepared, process_document ends with that
\* error and the upload handler answers 400 with that message.
C4_UnsupportedFormat ==
  \A p \in Invocations :
    UnsupportedInput(p) =>
      /\ calls[p] = <<>>
      /\ document[p] = <<>>
      /\ tryOutcome[p].kind # "return"
      /\ outcome[p].kind # "return"
      /\ response[p].status # 200
      /\ pc[p] \notin { "Extracting", "Awaiting", "Assembling" }
      /\ pc[p] \in { "Finally", "FinallyExists", "FinallyRemove" } =>
           EnteredTry(p)
      /\ EnteredTry(p) =>
           tryOutcome[p] = Raised("ValueError", MsgUnsupported, "UnsupportedFormat")
      /\ (EnteredTry(p) /\ pc[p] \in { "Exit", "Finished" }) =>
           outcome[p] = Raised("ValueError", MsgUnsupported, "UnsupportedFormat")
      /\ (EnteredTry(p) /\ pc[p] = "Finished" /\ req[p].entry = "upload") =>
           response[p] = TextResponse(400, MsgUnsupported)

C4_Witness ==
  /\ pc[1] = "Finished"
  /\ req[1].entry = "upload"
  /\ req[1].filename = F_txt
  /\ calls[1] = <<>>
  /\ response[1] = TextResponse(400, MsgUnsupported)

\* C5: when the backend call for page i fails, page i was requested once, no
\* later page is requested, the loop is left, and process_document ends with
\* an exception: no document reaches the caller or the client.
C5_BackendFailureAborts ==
  \A p \in Invocations :
    tryOutcome[p].origin = "Backend" =>
      LET i == page_number[p] IN
        /\ calls[p] = [k \in 1..i |-> k]
        /\ Len(returned[p]) = i - 1
        /\ pc[p] \in AfterTry
        /\ outcome[p].kind # "return"
        /\ pc[p] \in { "Exit", "Finished" } => outcome[p].kind = "raise"
        /\ response[p].status # 200
        /\ ~response[p].attachment

C5_Witness ==
  /\ pc[1] = "Finished"
  /\ tryOutcome[1].origin = "Backend"
  /\ Len(pages_to_process[1]) = 3
  /\ page_number[1] = 2
  /\ response[1].status = 500

\* C6: while an invocation is between storing its upload and deleting it, the
\* file at its path is the one it stored itself.
C6_OwnStoredFile ==
  \A p \in Invocations :
    pc[p] \in { "Saved", "Entry", "Extracting", "Awaiting", "Assembling",
                "Finally", "FinallyExists", "FinallyRemove" } =>
      /\ Exists(input_file_path[p])
      /\ fs[input_file_path[p]].data = UploadData(p, req[p].size)

\* C7: the upload handler answers 400 only to an UnsupportedFormat failure;
\* any other failure of the pipeline is answered 500 with the generic
\* message, and no internal error text is sent.
C7_StatusMapping ==
  \A p \in Invocations :
    (pc[p] = "Finished" /\ req[p].entry = "upload" /\ writes[p] >= 1) =>
      /\ response[p].status = 400 => outcome[p].origin = "UnsupportedFormat"
      /\ (outcome[p].kind = "raise" /\ outcome[p].origin # "UnsupportedFormat") =>
           response[p] = TextResponse(500, MsgGeneric)
      /\ response[p].body # MsgInternal

\* The credential is absent: unset, or set to the empty string.
KeyAbsent == ~API_KEY.set \/ API_KEY.value = ""

\* The invocation wrote nothing and called the backend never.
Untouched(p) ==
  /\ writes[p] = 0
  /\ calls[p] = <<>>
  /\ \A path \in Paths :
       /\ p \notin fs[path].writers
       /\ \A i \in 1..Len(fs[path].data) : fs[path].data[i] # p

\* C8: the upload entry point answers 500 when the credential is absent and
\* 400 when there is no 'file' part or its file name is empty, and then it has
\* written nothing to the upload directory and made no OCR call.
C8_Rejections ==
  \A p \in Invocations :
    (pc[p] = "Finished" /\ req[p].entry = "upload") =>
      /\ KeyAbsent =>
           /\ response[p] = TextResponse(500, MsgNoKey)
           /\ Untouched(p)
      /\ (~KeyAbsent /\ ~req[p].hasFile) =>
           /\ response[p] = TextResponse(400, MsgNoFilePart)
           /\ Untouched(p)
      /\ (~KeyAbsent /\ req[p].hasFile /\ req[p].filename = <<>>) =>
           /\ response[p] = TextResponse(400, MsgNoSelectedFile)
           /\ Untouched(p)

C8_Witness ==
  /\ pc[1] = "Finished"
  /\ KeyAbsent
  /\ req[1].hasFile
  /\ req[1].filename = F_pdf
  /\ response[1].status = 500

\* process_document was called: by the handler, which has made its client by
\* then, or directly.
Started(p) == req[p].entry = "direct" \/ client[p] # "None"

\* The driver state of the pipeline, in the terms of the state machine
\* Idle -> Splitting -> Extracting(i) -> Assembling -> Done | Failed.  A
\* request that never reaches process_document (rejected, not saved, or left
\* without a client) never starts the pipeline: it stays Idle.
DriverState(p) ==
  CASE ~Started(p) -> "Idle"
    [] pc[p] = "Entry" -> "Splitting"
    [] pc[p] \in { "Extracting", "Awaiting" } -> "Extracting"
    [] pc[p] = "Assembling" -> "Assembling"
    [] OTHER -> IF tryOutcome[p].kind = "return" THEN "Done" ELSE "Failed"

\* The call log is 1, 2, ..., in page order, never beyond the page count; at
\* most one call is outstanding; the document is serialized only with all N
\* pages requested and returned.
C9_Order ==
  \A p \in Invocations :
    LET N == Len(pages_to_process[p]) IN
      /\ calls[p] = [k \in 1..Len(calls[p]) |-> k]
      /\ Len(calls[p]) <= N
      /\ Len(calls[p]) - Len(returned[p]) \in { 0, 1 }
      /\ pc[p] = "Awaiting" => Len(calls[p]) = Len(returned[p]) + 1
      /\ pc[p] = "Extracting" => Len(calls[p]) = Len(returned[p])
      /\ (pc[p] = "Assembling" \/ tryOutcome[p].kind = "return") =>
           /\ Len(calls[p]) = N
           /\ Len(returned[p]) = N

\* Every step of the driver: a call is issued only when the one before it has
\* returned, it asks for the next page, and the driver's state moves along
\* Idle -> Splitting -> Extracting -> Assembling -> Done, or to Failed.
C9_Step ==
  \A p \in Invocations :
    /\ calls'[p] # calls[p] =>
         /\ Len(calls[p]) = Len(returned[p])
         /\ calls'[p] = Append(calls[p], Len(returned[p]) + 1)
    /\ returned'[p] # returned[p] =>
         /\ Len(returned'[p]) = Len(calls[p])
         /\ calls'[p] = calls[p]
    /\ << DriverState(p), DriverState(p)' >> \in
         { << "Idle", "Idle" >>, << "Idle", "Splitting" >>,
           << "Splitting", "Splitting" >>, << "Splitting", "Extracting" >>,
           << "Splitting", "Failed" >>,
           << "Splitting", "Assembling" >>,
           << "Extracting", "Extracting" >>, << "Extracting", "Assembling" >>,
           << "Extracting", "Failed" >>,
           << "Assembling", "Assembling" >>, << "Assembling", "Done" >>,
           << "Assembling", "Failed" >>,
           << "Done", "Done" >>, << "Failed", "Failed" >> }
    /\ (DriverState(p) = "Splitting" /\ DriverState(p)' = "Assembling") =>
         Len(pages_to_process'[p]) = 0

\* C9: within one invocation the OCR calls are issued one at a time, in page
\* order, one per page, each after the one before it has returned, and the
\* document is serialized only after the N-th call has returned.
C9_OneCallPerPageInOrder == []C9_Order /\ [][C9_Step]_vars

C9_Witness ==
  /\ pc[1] = "Finished"
  /\ outcome[1].kind = "return"
  /\ calls[1] = << 1, 2, 3 >>
  /\ Len(returned[1]) = 3

\* C10: the cleanup step never changes what process_document delivers: the
\* function ends the way its try block ended.
C10_CleanupKeepsOutcome ==
  \A p \in Invocations :
    (pc[p] \in { "Exit", "Finished" } /\ tryOutcome[p].kind # "none") =>
      outcome[p] = tryOutcome[p]

====
